---- MODULE Spec2Model ----
(***************************************************************************)
(* The vet command of sqlc (internal/cmd/vet.go): rule compilation, the    *)
(* per-group database set-up, and the group -> query -> rule evaluation    *)
(* loop with its error aggregation.                                        *)
(*                                                                         *)
(* Strings whose content the code inspects are sequences: a query's        *)
(* command is a sequence of characters, a query text and a rule expression *)
(* are sequences of tokens.  The ranges of the loops over conf.SQL and     *)
(* req.Queries are read-only input; the model draws each element when the  *)
(* loop reaches it.                                                        *)
(***************************************************************************)
EXTENDS Integers, Sequences, FiniteSets, TLC

MaxGroups == 2
MaxQueries == 2
MaxRules == 2
MaxClock == 1

Nil == "nil"

RuleDbPrepare == "sqlc/db-prepare"

(***************************************************************************)
(* strings                                                                 *)
(***************************************************************************)
HasPrefix(s, prefix) ==
    /\ Len(prefix) <= Len(s)
    /\ SubSeq(s, 1, Len(prefix)) = prefix

\* strings.TrimPrefix(s, prefix): s without the leading prefix, or s itself
TrimPrefix(s, prefix) ==
    IF HasPrefix(s, prefix) THEN SubSeq(s, Len(prefix) + 1, Len(s)) ELSE s

\* strings.Contains(s, substr)
Contains(s, substr) ==
    \E k \in 0..(Len(s) - Len(substr)) : SubSeq(s, k + 1, k + Len(substr)) = substr

CmdMany == <<":", "m", "a", "n", "y">>
CmdOne == <<":", "o", "n", "e">>
CmdExec == <<":", "e", "x", "e", "c">>

(***************************************************************************)
(* the parsed queries (result.Queries[i] together with req.Queries[i])     *)
(***************************************************************************)
Query(name, cmd, text, stmt, disable) ==
    [Name |-> name, Cmd |-> cmd, Text |-> text, Stmt |-> stmt,
     Disable |-> disable, Filename |-> "query.sql"]

Queries ==
    { Query("ListUsers", CmdMany, <<"SELECT", "*", "FROM", "users">>, "SelectStmt", FALSE),
      Query("ListSome", CmdMany, <<"SELECT", "id", "FROM", "users", "LIMIT", "$1">>, "SelectStmt", FALSE),
      Query("GetUser", CmdOne, <<"SELECT", "id", "FROM", "users">>, "SelectStmt", FALSE),
      Query("MakeIndex", CmdExec, <<"CREATE", "INDEX", "ON", "users">>, "IndexStmt", FALSE),
      Query("Skipped", CmdMany, <<"SELECT", "*", "FROM", "users">>, "SelectStmt", TRUE) }

NoQuery == Query("", <<>>, <<>>, "", FALSE)

\* the projection of a query that rule expressions see
vetQuery(q) ==
    [Sql |-> q.Text, Name |-> q.Name, Cmd |-> TrimPrefix(<<":">>, q.Cmd)]

(***************************************************************************)
(* rule definitions and their compilation                                  *)
(***************************************************************************)
ExprNeedsLimit ==
    <<"query", ".", "cmd", "==", "':many'", "&&", "!", "query", ".", "sql",
      ".", "contains", "(", "'LIMIT'", ")">>
ExprSelectStar == <<"query", ".", "sql", ".", "contains", "(", "'*'", ")">>
ExprPgCost == <<"postgresql", ".", "explain", ".", "plan", ".", "total_cost", ">", "1.0">>
ExprMyCost ==
    <<"mysql", ".", "explain", ".", "query_block", ".", "cost_info", ".", "query_cost", ">", "1.0">>
ExprSqlText == <<"query", ".", "sql">>
\* the postgresql variable reached with a blank before the selector
ExprPgLoose ==
    <<"postgresql", " ", ".", "explain", ".", "plan", ".", "total_cost", ">", "1.0">>
\* an expression that does not type-check
ExprIllTyped == <<"query", ".", "nosuchfield">>
\* an expression that type-checks and that env.Program refuses
ExprNoProgram == <<"query", ".", "sql", ".", "matches", "(", "'('", ")">>

RuleDef(name, expr, msg) == [Name |-> name, Rule |-> expr, Msg |-> msg]

ValidRules ==
    << RuleDef("needs-limit", ExprNeedsLimit, ""),
       RuleDef("no-select-star", ExprSelectStar, "avoid select *"),
       RuleDef("pg-cost", ExprPgCost, "too costly"),
       RuleDef("my-cost", ExprMyCost, ""),
       RuleDef("sql-text", ExprSqlText, ""),
       RuleDef("pg-loose", ExprPgLoose, "") >>

\* rule lists with a definition that Vet rejects
InvalidRuleSets ==
    { << RuleDef("needs-limit", ExprNeedsLimit, ""), RuleDef("", ExprSelectStar, "") >>,
      << RuleDef("needs-limit", ExprNeedsLimit, ""),
         RuleDef("needs-limit", ExprSelectStar, "") >>,
      << RuleDef(RuleDbPrepare, ExprSelectStar, "") >>,
      << RuleDef("needs-limit", ExprNeedsLimit, ""), RuleDef("empty", <<>>, "") >>,
      << RuleDef("needs-limit", ExprNeedsLimit, ""),
         RuleDef("ill-typed", ExprIllTyped, "") >>,
      << RuleDef("needs-limit", ExprNeedsLimit, ""),
         RuleDef("no-program", ExprNoProgram, "") >> }

ConfRuleSets == { <<>>, ValidRules } \cup InvalidRuleSets

\* the names a group's rule list is drawn from; "no-such-rule" is never defined
RuleNames ==
    {RuleDbPrepare, "needs-limit", "no-select-star", "pg-cost", "sql-text",
     "no-such-rule"}

RuleLists == UNION { [1..n -> RuleNames] : n \in 0..MaxRules }

\* env.Compile: the expressions that type-check against the vet environment
TypeChecks(expr) ==
    expr \in {ExprNeedsLimit, ExprSelectStar, ExprPgCost, ExprMyCost, ExprSqlText,
              ExprPgLoose, ExprNoProgram}

\* env.Program: the type-checked expressions it builds a program from
ProgramBuilds(expr) == expr # ExprNoProgram

\* a build that looks for the postgresql accessor only
NeedsExplainOf_PgOnly(expr) == Contains(expr, <<"postgresql", ".", "explain">>)

NeedsExplainOf(expr) ==
    \/ Contains(expr, <<"postgresql", ".", "explain">>)
    \/ Contains(expr, <<"mysql", ".", "explain">>)

\* a rule of the registry; Program = <<>> stands for the nil program
NewRule(c) ==
    [Program |-> c.Rule, Message |-> c.Msg, NeedsPrepare |-> FALSE,
     NeedsExplain |-> NeedsExplainOf(c.Rule)]

BuiltinRules ==
    RuleDbPrepare :> [Program |-> <<>>, Message |-> "", NeedsPrepare |-> TRUE,
                      NeedsExplain |-> FALSE]

\* a build that leaves a rejected definition out and goes on
RECURSIVE CompileRules_SkipsInvalid(_, _)
CompileRules_SkipsInvalid(defs, acc) ==
    IF defs = <<>> THEN [err |-> Nil, rules |-> acc]
    ELSE LET c == Head(defs) IN
         IF \/ c.Name = ""
            \/ c.Name \in DOMAIN acc
            \/ c.Rule = <<>>
            \/ ~TypeChecks(c.Rule)
            \/ ~ProgramBuilds(c.Rule)
         THEN CompileRules_SkipsInvalid(Tail(defs), acc)
         ELSE CompileRules_SkipsInvalid(Tail(defs), acc @@ (c.Name :> NewRule(c)))

RECURSIVE CompileRules(_, _)
CompileRules(defs, acc) ==
    IF defs = <<>> THEN [err |-> Nil, rules |-> acc]
    ELSE LET c == Head(defs) IN
         IF c.Name = "" THEN [err |-> "rules require a name", rules |-> acc]
         ELSE IF c.Name \in DOMAIN acc THEN [err |-> "rule already exists", rules |-> acc]
         ELSE IF c.Rule = <<>> THEN [err |-> "rule is empty", rules |-> acc]
         ELSE IF ~TypeChecks(c.Rule) THEN [err |-> "type-check error", rules |-> acc]
         ELSE IF ~ProgramBuilds(c.Rule)
              THEN [err |-> "program construction error", rules |-> acc]
         ELSE CompileRules(Tail(defs), acc @@ (c.Name :> NewRule(c)))

(***************************************************************************)
(* evaluation of a compiled program against the evaluation map             *)
(***************************************************************************)
Refers(expr, var) == Contains(expr, <<var>>)

\* a key of the evaluation map that was never assigned; a key assigned a nil
\* value is present and holds Nil
Absent == "absent"
HasKey(env, k) == env[k] # Absent

NewEvalMap(q) ==
    [query |-> vetQuery(q), config |-> "cfg", postgresql |-> Absent, mysql |-> Absent]

NoEvalMap == [query |-> vetQuery(NoQuery), config |-> "cfg", postgresql |-> Absent,
              mysql |-> Absent]

Eval(prg, env) ==
    IF \E v \in {"postgresql", "mysql"} : Refers(prg, v) /\ ~HasKey(env, v)
    THEN "error"
    ELSE IF prg = ExprNeedsLimit
         THEN IF env.query.Cmd = CmdMany /\ ~Contains(env.query.Sql, <<"LIMIT">>)
              THEN "true" ELSE "false"
    ELSE IF prg = ExprSelectStar
         THEN IF Contains(env.query.Sql, <<"*">>) THEN "true" ELSE "false"
    ELSE IF prg \in {ExprPgCost, ExprPgLoose}
         THEN IF env.postgresql = "costly" THEN "true" ELSE "false"
    ELSE IF prg = ExprMyCost
         THEN IF env.mysql = "costly" THEN "true" ELSE "false"
    ELSE "nonbool"

(***************************************************************************)
(* capability providers                                                    *)
(***************************************************************************)
Engines == {"postgresql", "mysql", "sqlite"}

\* a build in which every statement kind counts as preparable
prepareable_AnyKind(engine, stmt) == engine \in {"postgresql", "mysql", "sqlite"}

prepareable(engine, stmt) ==
    IF engine = "postgresql"
    THEN stmt \in {"DeleteStmt", "InsertStmt", "SelectStmt", "UpdateStmt"}
    ELSE engine \in {"mysql", "sqlite"}

\* the preparer and the explainer that checkSQL sets up for an engine
PreparerOf(engine) == IF engine = "postgresql" THEN "pgxConn" ELSE "dbPreparer"

\* a build that gives SQLite the explainer of the other database/sql engine
ExplainerOf_SqliteToo(engine) ==
    IF engine = "postgresql" THEN "pgxConn" ELSE "mysqlExplainer"

ExplainerOf(engine) ==
    IF engine = "postgresql" THEN "pgxConn"
    ELSE IF engine = "mysql" THEN "mysqlExplainer" ELSE Nil

\* what the database answers to a round trip that fails: an error of its
\* own, or the error of a context that is cancelled
DbErrors == {"error", "cancelled"}

\* what Prepare does when the database answers dbRes ("ok" or an error)
pgxConnPrepare(dbRes) == dbRes
dbPreparerPrepare(dbRes) == IF dbRes \in DbErrors THEN "panic" ELSE "ok"

Prepare(p, dbRes) ==
    IF p = "pgxConn" THEN pgxConnPrepare(dbRes) ELSE dbPreparerPrepare(dbRes)

\* a build whose explainers fill both sides of the engine output
Explain_BothSides(e, dbRes) ==
    IF dbRes \in DbErrors THEN [err |-> dbRes, PostgreSQL |-> Nil, MySQL |-> Nil]
    ELSE [err |-> Nil, PostgreSQL |-> dbRes, MySQL |-> dbRes]

\* what Explain returns when the database answers dbRes: an error or a plan
Explain(e, dbRes) ==
    IF dbRes \in DbErrors THEN [err |-> dbRes, PostgreSQL |-> Nil, MySQL |-> Nil]
    ELSE IF e = "pgxConn" THEN [err |-> Nil, PostgreSQL |-> dbRes, MySQL |-> Nil]
    ELSE [err |-> Nil, PostgreSQL |-> Nil, MySQL |-> dbRes]


(***************************************************************************)
(* the run                                                                 *)
(***************************************************************************)
\* fmt.Sprintf("sqlc_vet_%d_%d", t, idx)
StmtName(t, idx) == <<"sqlc_vet", t, idx>>

Groups == [Engine : Engines, Database : BOOLEAN, Rules : RuleLists]

NoGroup == [Engine |-> "postgresql", Database |-> FALSE, Rules |-> <<>>]

VARIABLES
    pc,          \* where the run stands: compile, vetLoop, queryLoop, ruleLoop, done, panicked
    confRules,   \* conf.Rules
    NoDatabase,  \* e.NoDatabase
    rules,       \* the registry, c.Rules
    g,           \* groups of conf.SQL taken so far
    group,       \* the group checkSQL is called with
    openConns,   \* database handles the group has opened and not closed
    prep,        \* checkSQL's preparer
    expl,        \* checkSQL's explainer
    i,           \* queries of the group taken so far
    query,       \* the query of the current pass, kept until the next one
    evalMap,     \* the evaluation map of the current pass
    ruleIdx,     \* position in the group's rule list
    errored,     \* checkSQL's errored, kept until the next call
    vetErrored,  \* Vet's errored
    result,      \* what Vet returned
    last,        \* what the last step did
    qExplain,    \* Explain calls made in the current pass
    qExplained,  \* Explain calls of the current pass that succeeded
    gEvaluated,  \* a rule of the group got past its lookup in checkSQL's last call
    hardError,   \* checkSQL has returned an error other than ErrFailedChecks
    qStmts,      \* the statement names passed to Prepare in the current pass
    qExplainText,\* the text of the current pass's Explain call that succeeded
    cancelled    \* a round trip has found the caller's context cancelled

vars == <<pc, confRules, NoDatabase, rules, g, group, openConns, prep, expl, i,
          query, evalMap, ruleIdx, errored, vetErrored, result, last, qExplain,
          qExplained, gEvaluated, hardError, qStmts, qExplainText,
                   cancelled>>

\* what the last step did: the rule it looked up, the answers to its Prepare
\* and Explain calls, the result of Eval, the diagnostic it wrote with the
\* third field of that line, the name it passed to Prepare, the error returned
Quiet(op) ==
    [op |-> op, rule |-> "", prepare |-> "none", explain |-> "none",
     eval |-> "none", diag |-> "none", name |-> <<>>, stmt |-> <<>>,
     pg |-> Absent, my |-> Absent, fatal |-> "none"]

Init ==
    /\ pc = "compile"
    /\ confRules \in ConfRuleSets
    /\ NoDatabase \in BOOLEAN
    /\ rules = BuiltinRules
    /\ g = 0
    /\ group = NoGroup
    /\ openConns = 0
    /\ prep = Nil
    /\ expl = Nil
    /\ i = 0
    /\ query = NoQuery
    /\ evalMap = NoEvalMap
    /\ ruleIdx = 0
    /\ errored = FALSE
    /\ vetErrored = FALSE
    /\ result = "none"
    /\ last = Quiet("start")
    /\ qExplain = 0
    /\ qExplained = 0
    /\ gEvaluated = FALSE
    /\ hardError = FALSE
    /\ qStmts = <<>>
    /\ qExplainText = <<>>
    /\ cancelled = FALSE

\* Vet, the loop over conf.Rules
Compile ==
    /\ pc = "compile"
    /\ LET r == CompileRules(confRules, BuiltinRules) IN
       IF r.err = Nil
       THEN /\ rules' = r.rules
            /\ pc' = "vetLoop"
            /\ result' = result
            /\ last' = Quiet("compile")
       ELSE /\ rules' = rules
            /\ pc' = "done"
            /\ result' = "compile error"
            /\ last' = [Quiet("compile") EXCEPT !.fatal = r.err]
    /\ UNCHANGED <<confRules, NoDatabase, g, group, openConns, prep, expl, i, query,
                   evalMap, ruleIdx, errored, vetErrored, qExplain, qExplained,
                   gEvaluated, hardError, qStmts, qExplainText, cancelled>>

\* the error that ends checkSQL before its query loop, or Nil
SetupError(grp, parseOk, db) ==
    IF ~parseOk THEN "ErrFailedChecks"
    ELSE IF ~grp.Database THEN Nil
    ELSE IF NoDatabase THEN "database: connections disabled via command line flag"
    ELSE IF db = "ok" THEN Nil
    ELSE IF db = "cancelled" THEN "database: connection error: context canceled"
    ELSE "database: connection error"

\* errors.Is(err, ErrFailedChecks) is false of a non-nil error
IsHard(err) == err \notin {Nil, "ErrFailedChecks"}

\* checkSQL returns err to Vet: the deferred Close runs, Vet prints a hard
\* error and notes the failure
ReturnToVet(err, lst) ==
    /\ pc' = "vetLoop"
    /\ group' = NoGroup
    /\ openConns' = IF prep # Nil THEN openConns - 1 ELSE openConns
    /\ prep' = Nil
    /\ expl' = Nil
    /\ i' = 0
    /\ query' = NoQuery
    /\ evalMap' = NoEvalMap
    /\ ruleIdx' = 0
    /\ errored' = errored
    /\ qExplain' = 0
    /\ qExplained' = 0
    /\ qStmts' = <<>>
    /\ qExplainText' = <<>>
    /\ vetErrored' = (vetErrored \/ err # Nil)
    /\ hardError' = (hardError \/ IsHard(err))
    /\ last' = [lst EXCEPT !.fatal = IF IsHard(err) THEN err ELSE "none"]

\* what a round trip can be answered: one of res or the error of a cancelled
\* context, and only that error once the context is cancelled
Answers(res) == IF cancelled THEN {"cancelled"} ELSE res \cup {"cancelled"}

\* the handle is open and its Ping fails: pgx.Connect takes the context and
\* fails itself when it is cancelled, sql.Open does not
PingFails(engine, db) ==
    db = "ping error" \/ (db = "cancelled" /\ engine # "postgresql")

\* checkSQL up to its query loop: parse, then the database set-up
CheckSQLSetup ==
    /\ pc = "vetLoop"
    /\ g < MaxGroups
    /\ \E grp \in Groups, parseOk \in BOOLEAN :
       LET connects == parseOk /\ grp.Database /\ ~NoDatabase IN
       \E db \in IF connects THEN Answers({"ok", "connect error", "ping error"})
                 ELSE {"ok"} :
         LET err == SetupError(grp, parseOk, db) IN
         /\ cancelled' = (cancelled \/ db = "cancelled")
         /\ g' = g + 1
         /\ group' = IF err # Nil THEN NoGroup ELSE grp
         /\ gEvaluated' = FALSE
         /\ errored' = FALSE
         /\ IF err # Nil
            THEN /\ pc' = "vetLoop"
                 /\ openConns' = IF connects /\ PingFails(grp.Engine, db) THEN 1 ELSE 0
                 /\ vetErrored' = TRUE
                 /\ hardError' = (hardError \/ IsHard(err))
                 /\ last' = [Quiet(IF parseOk THEN "setup" ELSE "parse failed") EXCEPT
                               !.fatal = IF IsHard(err) THEN err ELSE "none"]
                 /\ UNCHANGED <<prep, expl>>
            ELSE /\ pc' = "queryLoop"
                 /\ openConns' = IF grp.Database THEN 1 ELSE 0
                 /\ prep' = IF grp.Database THEN PreparerOf(grp.Engine) ELSE Nil
                 /\ expl' = IF grp.Database THEN ExplainerOf(grp.Engine) ELSE Nil
                 /\ vetErrored' = vetErrored
                 /\ hardError' = hardError
                 /\ last' = Quiet("setup")
    /\ UNCHANGED <<confRules, NoDatabase, rules, i, query, evalMap, ruleIdx,
                   result, qExplain, qExplained, qStmts, qExplainText>>

\* checkSQL, the head of the loop over req.Queries: the next query is skipped
\* when it carries the disable flag, and gets a fresh evaluation map otherwise
\* a build that ignores the disable flag
Skips_IgnoresFlag(q) == FALSE

Skips(q) == q.Disable

NextQuery ==
    /\ pc = "queryLoop"
    /\ i < MaxQueries
    /\ \E q \in Queries :
         /\ i' = i + 1
         /\ query' = q
         /\ IF Skips(q)
            THEN /\ pc' = "queryLoop"
                 /\ evalMap' = NoEvalMap
                 /\ ruleIdx' = 0
                 /\ last' = Quiet("skip")
            ELSE /\ pc' = IF group.Rules = <<>> THEN "queryLoop" ELSE "ruleLoop"
                 /\ evalMap' = IF group.Rules = <<>> THEN NoEvalMap ELSE NewEvalMap(q)
                 /\ ruleIdx' = IF group.Rules = <<>> THEN 0 ELSE 1
                 /\ last' = Quiet("query")
    /\ qExplain' = 0
    /\ qExplained' = 0
    /\ qStmts' = <<>>
    /\ qExplainText' = <<>>
    /\ UNCHANGED <<confRules, NoDatabase, rules, g, group, openConns, prep, expl,
                   errored, vetErrored, result, gEvaluated, hardError, cancelled>>

\* the loop over req.Queries is over: checkSQL returns ErrFailedChecks or nil
EndQueries ==
    /\ pc = "queryLoop"
    /\ ReturnToVet(IF errored THEN "ErrFailedChecks" ELSE Nil, Quiet("return"))
    /\ UNCHANGED <<confRules, NoDatabase, rules, g, result, gEvaluated, cancelled>>

\* a build without the check for explain output already in the map
NeedsExplainCall_NoMemo(rule, env) == rule.NeedsExplain

\* the explain section of one pass of the loop over s.Rules
NeedsExplainCall(rule, env) ==
    rule.NeedsExplain /\ ~(HasKey(env, "postgresql") \/ HasKey(env, "mysql"))

\* a build that never appends the rule's message
TrippedDiag_NoMessage(rule) == "tripped"

\* the line written for a rule that evaluated to true
TrippedDiag(rule) ==
    IF rule.Message = "" THEN "tripped" ELSE "tripped: message"

\* the text after the third field of the line written for a failed round trip
PrepareDiag(err) ==
    IF err = "cancelled" THEN "error preparing query: context canceled"
    ELSE "error preparing query: error"

ExplainDiag(err) ==
    IF err = "cancelled" THEN "error explaining query: context canceled"
    ELSE "error explaining query: error"

\* the pass for the rule called name reaches its Prepare call
CallsPrepare(name) ==
    /\ name \in DOMAIN rules
    /\ rules[name].NeedsPrepare
    /\ prep # Nil
    /\ prepareable(group.Engine, query.Stmt)

\* the pass for the rule called name reaches its Explain call, if its prepare
\* section lets it
CallsExplain(name) ==
    /\ name \in DOMAIN rules
    /\ rules[name].Program # <<>>
    /\ NeedsExplainCall(rules[name], evalMap)
    /\ expl # Nil

\* one pass of the loop over s.Rules for the rule called name, the database
\* answering prepRes to Prepare and explRes to Explain, the clock reading t
Iteration(name, prepRes, explRes, t) ==
    LET base == [kind |-> "continue", errored |-> FALSE, env |-> evalMap,
                 looked |-> TRUE, explains |-> 0,
                 last |-> [Quiet("rule") EXCEPT !.rule = name]]
        \* a line whose third field is the loop variable name
        Report(b, d, p, e) ==
            [b EXCEPT !.errored = TRUE, !.explains = IF e = "none" THEN 0 ELSE 1,
                      !.last.diag = d, !.last.name = <<name>>,
                      !.last.prepare = p, !.last.explain = e]
    IN
    IF name \notin DOMAIN rules
    THEN [base EXCEPT !.kind = "fatal", !.looked = FALSE,
                      !.last.fatal = "type-check error: rule does not exist"]
    ELSE
    LET rule == rules[name]
        calls == CallsPrepare(name)
        \* name := fmt.Sprintf(...), declared inside the prepare section
        stmt == IF calls THEN StmtName(t, i - 1) ELSE <<>>
        prepared == IF calls THEN Prepare(prep, prepRes) ELSE "none"
        named == [base EXCEPT !.last.stmt = stmt]
    IN
    IF rule.NeedsPrepare /\ prep = Nil
    THEN Report(base, "error preparing query: database connection required",
                "none", "none")
    ELSE IF rule.NeedsPrepare /\ ~prepareable(group.Engine, query.Stmt)
    THEN Report(base, "error preparing query: query type is unpreparable",
                "none", "none")
    ELSE IF prepared = "panic"
    THEN [named EXCEPT !.kind = "panic", !.last.prepare = prepRes]
    ELSE IF prepared \in DbErrors
    THEN \* the inner name is in scope: the line carries the statement name
         [Report(named, PrepareDiag(prepared), prepared, "none") EXCEPT
             !.last.name = stmt]
    ELSE IF rule.Program = <<>>
    THEN [named EXCEPT !.last.prepare = prepared]
    ELSE
    LET call == NeedsExplainCall(rule, evalMap)
        out == Explain(expl, explRes)
    IN
    IF call /\ expl = Nil
    THEN Report(named, "error explaining query: database connection required",
                prepared, "none")
    ELSE IF call /\ out.err # Nil
    THEN Report(named, ExplainDiag(out.err), prepared, out.err)
    ELSE
    LET env == IF call
               THEN [evalMap EXCEPT !.postgresql = out.PostgreSQL, !.mysql = out.MySQL]
               ELSE evalMap
        val == Eval(rule.Program, env)
        done == [named EXCEPT !.env = env, !.explains = IF call THEN 1 ELSE 0,
                              !.last.prepare = prepared,
                              !.last.explain = IF call THEN "ok" ELSE "none",
                              !.last.pg = env.postgresql, !.last.my = env.mysql,
                              !.last.eval = val]
    IN
    IF val = "error"
    THEN [done EXCEPT !.kind = "fatal", !.last.fatal = "evaluation error"]
    ELSE IF val = "nonbool"
    THEN [done EXCEPT !.kind = "fatal",
                      !.last.fatal = "expression returned non-bool value"]
    ELSE IF val = "true"
    THEN [done EXCEPT !.errored = TRUE, !.last.diag = TrippedDiag(rule),
                      !.last.name = <<name>>]
    ELSE done

\* checkSQL, one pass of the loop over s.Rules; a fatal error returns to Vet,
\* which goes on with the next group; once the context is cancelled every
\* round trip fails with its error
RuleStep ==
    /\ pc = "ruleLoop"
    /\ \E prepRes \in IF CallsPrepare(group.Rules[ruleIdx])
                       THEN Answers({"ok", "error"}) ELSE {"ok"},
          explRes \in IF CallsExplain(group.Rules[ruleIdx])
                       THEN Answers({"cheap", "costly", "error"}) ELSE {"cheap"},
          t \in IF CallsPrepare(group.Rules[ruleIdx]) THEN 0..MaxClock ELSE {0} :
         LET r == Iteration(group.Rules[ruleIdx], prepRes, explRes, t) IN
         /\ cancelled' = (cancelled \/ r.last.prepare = "cancelled"
                                    \/ r.last.explain = "cancelled")
         /\ gEvaluated' = (gEvaluated \/ r.looked)
         /\ IF r.kind = "panic"
            THEN /\ pc' = "panicked"
                 /\ result' = "panic"
                 /\ openConns' = IF prep # Nil THEN openConns - 1 ELSE openConns
                 /\ qStmts' = Append(qStmts, r.last.stmt)
                 /\ last' = r.last
                 /\ UNCHANGED <<group, prep, expl, i, query, evalMap, ruleIdx, errored,
                                vetErrored, qExplain, qExplained, hardError,
                                qExplainText>>
            ELSE IF r.kind = "fatal"
            THEN /\ ReturnToVet(r.last.fatal, r.last)
                 /\ result' = result
            ELSE /\ pc' = IF ruleIdx < Len(group.Rules) THEN "ruleLoop" ELSE "queryLoop"
                 /\ ruleIdx' = IF ruleIdx < Len(group.Rules) THEN ruleIdx + 1 ELSE 0
                 /\ evalMap' = IF ruleIdx < Len(group.Rules) THEN r.env ELSE NoEvalMap
                 /\ errored' = (errored \/ r.errored)
                 /\ qExplain' = qExplain + r.explains
                 /\ qExplained' = IF r.last.explain = "ok" THEN qExplained + 1
                                  ELSE qExplained
                 /\ qStmts' = IF r.last.stmt # <<>> THEN Append(qStmts, r.last.stmt)
                              ELSE qStmts
                 \* expl.Explain(ctx, query.Text, ...)
                 /\ qExplainText' = IF r.last.explain = "ok" THEN query.Text
                                    ELSE qExplainText
                 /\ hardError' = hardError
                 /\ last' = r.last
                 /\ UNCHANGED <<group, openConns, prep, expl, i, query, vetErrored,
                                result>>
    /\ UNCHANGED <<confRules, NoDatabase, rules, g>>

\* Vet, after the loop over conf.SQL
VetReturn ==
    /\ pc = "vetLoop"
    /\ pc' = "done"
    /\ result' = IF vetErrored THEN "ErrFailedChecks" ELSE Nil
    /\ last' = Quiet("exit")
    /\ UNCHANGED <<confRules, NoDatabase, rules, g, group, openConns, prep, expl, i,
                   query, evalMap, ruleIdx, errored, vetErrored, qExplain,
                   qExplained, gEvaluated, hardError, qStmts, qExplainText,
                   cancelled>>

Next ==
    \/ Compile
    \/ CheckSQLSetup
    \/ NextQuery
    \/ EndQueries
    \/ RuleStep
    \/ VetReturn

Spec == Init /\ [][Next]_vars

TypeOK ==
    /\ pc \in {"compile", "vetLoop", "queryLoop", "ruleLoop", "done", "panicked"}
    /\ g \in 0..MaxGroups
    /\ i \in 0..MaxQueries
    /\ ruleIdx \in 0..MaxRules
    /\ openConns \in 0..1

(***************************************************************************)
(* runs with zero configured rules: no rule definitions, no rule names in  *)
(* any group, and sources that parse                                       *)
(***************************************************************************)
InitNoRules == Init /\ confRules = <<>>

NextNoRules ==
    /\ Next
    /\ group'.Rules = <<>>
    /\ last'.op # "parse failed"

SpecNoRules == InitNoRules /\ [][NextNoRules]_vars

(***************************************************************************)
(* properties                                                              *)
(***************************************************************************)
DbRequired ==
    {"error preparing query: database connection required",
     "error explaining query: database connection required"}

Unpreparable == "error preparing query: query type is unpreparable"

DisabledError == "database: connections disabled via command line flag"

UnknownRuleError == "type-check error: rule does not exist"

\* C1: a Prepare call the database rejects ends in a reported failure: a
\* diagnostic is written, the failure flag is set, the loop goes on, and the
\* run does not panic.
C1_PrepareErrorIsReported ==
    last.prepare = "error" =>
        /\ pc \in {"ruleLoop", "queryLoop"}
        /\ last.diag = "error preparing query: error"
        /\ errored

\* C2: the rule query.cmd == ":many" && !query.sql.contains("LIMIT") trips
\* exactly for the :many queries without LIMIT, and never for a :one query.
C2_NeedsLimitTrips ==
    (last.rule = "needs-limit" /\ last.eval # "none") =>
        /\ (last.diag = "tripped") <=>
               (query.Cmd = CmdMany /\ ~Contains(query.Text, <<"LIMIT">>))
        /\ query.Cmd = CmdOne => last.diag = "none"

\* C3 as stated: Explain is invoked at most once in a query's pass, whatever
\* the calls return.
C3_ExplainAtMostOnce == qExplain <= 1

\* C3 as amended: at most one Explain call of a pass succeeds, and once one
\* has succeeded the pass makes no further Explain call.
C3_ExplainOnceSucceeded ==
    [][ /\ qExplained' <= 1
        /\ (pc = "ruleLoop" /\ qExplained >= 1) => qExplain' <= qExplain ]_vars

C3_Witness ==
    /\ qExplained = 1
    /\ qExplain = 1
    /\ ruleIdx = 0
    /\ Len(group.Rules) = 2
    /\ rules[group.Rules[1]].NeedsExplain
    /\ last.rule = "pg-cost"
    /\ last.explain = "none"
    /\ last.eval \in {"true", "false"}

\* C4: when a group's rule list holds an unknown name the fatal error comes
\* before any diagnostic of the group and before any of its queries is
\* evaluated.
C4_UnknownRuleBeforeAnyQuery ==
    last.fatal = UnknownRuleError => (~errored /\ ~gEvaluated)

\* C5: once checkSQL has returned a hard error the run does nothing but end.
C5_FatalAbortsRun == [][hardError => pc' = "done"]_vars

\* C6: Vet returns ErrFailedChecks only when no hard error occurred.
C6_FailedChecksOnlyWithoutHardError ==
    (pc = "done" /\ result = "ErrFailedChecks") => ~hardError

\* C7: with connections disabled or no database configured the group is not
\* aborted: a rule that needs the database is reported as "database
\* connection required" and the loop goes on.
C7_DbRequiredIsReported ==
    /\ last.fatal # DisabledError
    /\ (last.op = "rule" /\ last.fatal = "none" /\ prep = Nil
          /\ (rules[last.rule].NeedsPrepare \/ rules[last.rule].NeedsExplain)) =>
           (last.diag \in DbRequired /\ errored /\ pc \in {"ruleLoop", "queryLoop"})

\* C8: a run with zero configured rules writes no diagnostic and returns
\* success, whatever the groups' database configuration.
C8_ZeroRulesSucceed ==
    /\ last.diag = "none"
    /\ pc = "done" => result = Nil

\* C9: taking a query that carries the disable flag looks up and evaluates no
\* rule, makes no Prepare or Explain call, writes no diagnostic and leaves the
\* failure flags alone.
C9_DisabledQuerySkipped ==
    [][ (pc = "queryLoop" /\ i' = i + 1 /\ query'.Disable) =>
          /\ pc' = "queryLoop"
          /\ last'.rule = ""
          /\ last'.prepare = "none"
          /\ last'.explain = "none"
          /\ last'.eval = "none"
          /\ last'.diag = "none"
          /\ last'.fatal = "none"
          /\ qExplain' = 0
          /\ errored' = errored
          /\ vetErrored' = vetErrored
          /\ gEvaluated' = gEvaluated ]_vars

C9_Witness ==
    /\ query.Disable
    /\ last.op = "skip"
    /\ group.Rules # <<>>
    /\ prep # Nil

NotPreparablePg(grp, q) ==
    /\ grp.Engine = "postgresql"
    /\ q.Stmt \notin {"DeleteStmt", "InsertStmt", "SelectStmt", "UpdateStmt"}

\* C10 as stated: sqlc/db-prepare against a statement kind that PostgreSQL
\* cannot prepare is reported as "query type is unpreparable", without a
\* Prepare or an Explain call.
C10_UnpreparableReported ==
    (last.op = "rule" /\ last.rule = RuleDbPrepare /\ NotPreparablePg(group, query)) =>
        /\ last.diag = Unpreparable
        /\ last.prepare = "none"
        /\ last.explain = "none"

\* C10 as amended: the same, for a group whose database connection is set up.
C10_UnpreparableReportedWithDb ==
    (last.op = "rule" /\ last.rule = RuleDbPrepare /\ prep # Nil
       /\ NotPreparablePg(group, query)) =>
        /\ last.diag = Unpreparable
        /\ errored
        /\ last.prepare = "none"
        /\ last.explain = "none"
        /\ last.eval = "none"

C10_Witness ==
    /\ last.rule = RuleDbPrepare
    /\ last.diag = Unpreparable
    /\ prep = "pgxConn"
    /\ query.Stmt = "IndexStmt"

\* C11: when checkSQL has returned, on whatever path, the group holds no open
\* database handle.
C11_ConnClosedOnReturn ==
    pc \in {"vetLoop", "done", "panicked"} => openConns = 0

\* the rule definitions that have been compiled into the registry
Compiled ==
    IF pc = "compile" \/ result = "compile error" THEN {}
    ELSE { confRules[k] : k \in DOMAIN confRules }

MentionsPgExplain(expr) == Contains(expr, <<"postgresql", ".", "explain">>)
MentionsMyExplain(expr) == Contains(expr, <<"mysql", ".", "explain">>)

\* C12 as stated: a compiled rule needs explain exactly when its text
\* contains postgresql.explain.
C12_NeedsExplainIffPostgres ==
    \A c \in Compiled : rules[c.Name].NeedsExplain <=> MentionsPgExplain(c.Rule)

\* C12 as amended: a compiled rule needs explain exactly when its text
\* contains postgresql.explain or mysql.explain.
C12_NeedsExplainIffAccessor ==
    \A c \in Compiled :
        rules[c.Name].NeedsExplain <=>
            (MentionsPgExplain(c.Rule) \/ MentionsMyExplain(c.Rule))

C12_Witness ==
    /\ pc = "vetLoop"
    /\ \E c \in Compiled : MentionsMyExplain(c.Rule) /\ rules[c.Name].NeedsExplain
    /\ \E c \in Compiled : MentionsPgExplain(c.Rule) /\ rules[c.Name].NeedsExplain
    /\ \E c \in Compiled : ~rules[c.Name].NeedsExplain

\* C13: every compiled rule whose expression refers to the postgresql or the
\* mysql variable needs explain, and no evaluation fails on an unbound one.
C13_NeedsExplainSuperset ==
    /\ \A c \in Compiled :
          (Refers(c.Rule, "postgresql") \/ Refers(c.Rule, "mysql")) =>
              rules[c.Name].NeedsExplain
    /\ last.eval # "error"

\* the definition at position k of defs is one that Vet rejects
RejectedAt(defs, k) ==
    \/ defs[k].Name = ""
    \/ defs[k].Name = RuleDbPrepare
    \/ \E j \in 1..(k - 1) : defs[j].Name = defs[k].Name
    \/ defs[k].Rule = <<>>
    \/ defs[k].Rule = ExprIllTyped
    \/ defs[k].Rule = ExprNoProgram

\* C18: with an invalid rule definition anywhere in conf.Rules the run ends in
\* a compile error before any group is processed: nothing is parsed, no
\* connection is opened, no query is evaluated and no diagnostic is written.
C18_InvalidRuleAbortsBeforeGroups ==
    (\E k \in DOMAIN confRules : RejectedAt(confRules, k)) =>
        /\ pc \in {"compile", "done"}
        /\ pc = "done" => result = "compile error"
        /\ last.op \in {"start", "compile"}
        /\ last.diag = "none"
        /\ g = 0
        /\ i = 0
        /\ openConns = 0
        /\ prep = Nil
        /\ ~errored
        /\ ~gEvaluated

C18_Witness ==
    /\ pc = "done"
    /\ result = "compile error"
    /\ Len(confRules) = 2
    /\ ~RejectedAt(confRules, 1)
    /\ RejectedAt(confRules, 2)

\* C19: in a SQLite group Explain is never called: a rule that needs explain
\* is reported as "database connection required" and is not evaluated.
C19_SqliteNeverExplains ==
    group.Engine = "sqlite" =>
        /\ qExplain = 0
        /\ last.explain = "none"
        /\ (last.op = "rule" /\ last.rule \in {"pg-cost", "my-cost"}) =>
              /\ last.diag = "error explaining query: database connection required"
              /\ last.eval = "none"
              /\ errored

C19_Witness ==
    /\ group.Engine = "sqlite"
    /\ prep = "dbPreparer"
    /\ last.rule = "pg-cost"
    /\ last.diag = "error explaining query: database connection required"

\* C16: when a rule's expression is evaluated, a true result writes one
\* diagnostic for the pair, with the message suffix exactly when the rule has
\* a message, and sets the failure flag; a false result writes nothing and
\* leaves the failure flag as it was; the rule query.sql.contains("*") trips
\* exactly for the queries whose text contains "*".
C16_TrueTripsFalseSilent ==
    [][(pc = "ruleLoop" /\ last'.op = "rule" /\ last'.eval \in {"true", "false"}) =>
          /\ pc' \in {"ruleLoop", "queryLoop"}
          /\ last'.eval = "true" =>
                 /\ last'.diag = (IF rules[last'.rule].Message = "" THEN "tripped"
                                  ELSE "tripped: message")
                 /\ errored'
          /\ last'.eval = "false" =>
                 /\ last'.diag = "none"
                 /\ errored' = errored
          /\ last'.rule = "no-select-star" =>
                 (last'.eval = "true" <=> Contains(query.Text, <<"*">>))]_vars

C16_Witness ==
    /\ last.op = "rule"
    /\ last.rule = "no-select-star"
    /\ last.eval = "true"
    /\ last.diag = "tripped: message"
    /\ errored

\* C17: after a reported failure (a diagnostic, or a Prepare call the database
\* rejected) the loops go on with the next rule or query and the failure flag
\* is set.
C17_ReportedFailureContinues ==
    [][(pc = "ruleLoop" /\ last'.op = "rule"
        /\ (last'.diag # "none" \/ last'.prepare = "error")) =>
          /\ pc' \in {"ruleLoop", "queryLoop"}
          /\ errored']_vars

\* C14: every diagnostic written for a (query, rule) pair carries the rule's
\* name, as the group's rule list has it, as the third field of the line.
C14_DiagnosticNamesRule ==
    last.diag # "none" => last.name = <<last.rule>>

\* C15: a round trip that finds the context cancelled is not reported as an
\* ordinary prepare/explain failure and ends checkSQL, and once the context is
\* cancelled the only step left is Vet's return.
C15_CancellationAborts ==
    [][/\ (last'.prepare = "cancelled" \/ last'.explain = "cancelled") =>
             (last'.diag = "none" /\ pc' \in {"vetLoop", "done"})
       /\ cancelled => (pc' = "done" /\ last'.op = "exit")]_vars

\* C20: the statement names passed to Prepare during one query's pass are
\* pairwise distinct.
C20_StmtNamesDistinct ==
    \A a, b \in DOMAIN qStmts : a # b => qStmts[a] # qStmts[b]

\* a value of the evaluation map that holds explain output
Populated(v) == v \notin {Absent, Nil}

\* C21: when the expression of a rule flagged needs_explain is evaluated for a
\* query, one Explain call has succeeded in that query's pass, it was made on
\* the query's own text, and exactly one of the postgresql and mysql bindings
\* holds explain output; whatever rule is evaluated, explain output in the map
\* was obtained for the query under evaluation.
C21_ExplainOutputIsOwn ==
    (last.op = "rule" /\ last.eval # "none" /\ pc \in {"ruleLoop", "queryLoop"}) =>
        /\ rules[last.rule].NeedsExplain =>
              /\ qExplained = 1
              /\ qExplainText = query.Text
              /\ Populated(last.pg) # Populated(last.my)
        /\ (Populated(last.pg) \/ Populated(last.my)) => qExplainText = query.Text
        /\ ~(Populated(last.pg) /\ Populated(last.my))

C21_Witness ==
    /\ i = 2
    /\ last.op = "rule"
    /\ last.rule = "pg-cost"
    /\ last.eval = "true"
    /\ last.explain = "none"
    /\ last.pg = "costly"
    /\ last.my = Nil
    /\ qExplainText = query.Text

\* the group under check lists a rule name that the registry does not hold
RefersUnknownRule ==
    \E k \in DOMAIN group.Rules : group.Rules[k] \notin DOMAIN rules

\* C22: checkSQL never returns for a group that lists an unregistered rule
\* name without the unknown-rule error, which Vet notes as a failure; also
\* when the group has no queries or all of them carry the disable flag.
C22_UnknownRuleAlwaysFatal ==
    [][(pc \in {"queryLoop", "ruleLoop"} /\ pc' = "vetLoop" /\ RefersUnknownRule) =>
          /\ last'.fatal = UnknownRuleError
          /\ vetErrored']_vars
====
